---- MODULE Spec2Model ----
(***************************************************************************)
(* A model of scripts/convert_to_tsv.py: the archive walker (listarchive), *)
(* the label and phase heuristics (guess_label, guess_phase), the image    *)
(* gatherer (gather_images), the annotation resolver (get_boxes) and the   *)
(* emitter loop of main.                                                   *)
(*                                                                         *)
(* File names are tuples of one-character strings, so that the regular     *)
(* expressions, os.path.splitext, str.startswith and the substring tests   *)
(* of the source are computed character by character.  A path is a tuple   *)
(* of names (its components).                                              *)
(***************************************************************************)
EXTENDS Integers, Sequences, FiniteSets, TLC

VARIABLES
    syn_cache,      \* _syn_cache: TRUE when Synsetizer() was constructed
    lpath,          \* guess_label / guess_phase: the argument
    lres,           \* guess_label: what the call did
    lphase,         \* guess_phase: what the call returned
    root_path,      \* gather_images: the dataset root
    dataset,        \* the files under root_path (paths from the root)
    max_keep,       \* max_keep_per_label
    gstack,         \* gather_images: the frames of the recursion
    imagedata,      \* the phase buckets, in insertion order
    counts,         \* label -> number of images counted
    gseen,          \* the images guess_label returned for, in traversal order
    gstatus,        \* "run", "done", or "error" once an exception escaped
    fs,             \* the file system of the annotation sources
    wroot,          \* listarchive: the path of the outermost call
    wpat,           \* listarchive: extension_pattern
    wfilter,        \* listarchive: filter_func, [on, label] (label in elem)
    wstack,         \* listarchive: the frames of the suspended generators
    wpending,       \* the path the generator has yielded and its consumer not yet taken
    wstatus,        \* "run", "done" (exhausted) or "error" (an exception escaped)
    yields,         \* per enumeration, the paths yielded so far
    outcomes,       \* per finished enumeration, "done" or "error"
    reached,        \* the archives listarchive came to line 89 with
    extracted,      \* the extractions so far: [path, content, call], in order
    removed,        \* the archives deleted so far, in order
    annotation,     \* main: args.annotation, the annotation sources in order
    mphase,         \* main: the key of the bucket being written, <<>> between buckets
    phases_done,    \* main: the keys of the buckets already written
    vi,             \* main: the number of records of the bucket already handled
    phase_cache,    \* main: basename -> the table get_coco_bboxes returned
    parsed,         \* the calls of get_coco_bboxes so far: [phase, fname], in order
    out,            \* phase -> the files <phase>.tsv and <phase>.lineidx
    gb,             \* get_boxes: the loop it is in and the index of its source
    elog,           \* the returns of get_boxes so far, in order
    mstatus         \* main: "idle", "run", "done", or "error" once an exception escaped

LabelVars == <<lpath, lres, lphase>>
GatherVars == <<root_path, dataset, max_keep, gstack, imagedata, counts, gseen, gstatus>>

WalkVars == <<fs, wroot, wpat, wfilter, wstack, wpending, wstatus, yields, outcomes,
              reached, extracted, removed>>

EmitVars == <<annotation, mphase, phases_done, vi, phase_cache, parsed, out, gb, elog,
              mstatus>>

vars == <<syn_cache, LabelVars, GatherVars, WalkVars, EmitVars>>

(***************************************************************************)
(* Characters and strings                                                  *)
(***************************************************************************)
Digit == {"0","1","2","3","4","5","6","7","8","9"}

LowerLetter == {"a","b","c","d","e","f","g","h","i","j","k","l","m",
                "n","o","p","q","r","s","t","u","v","w","x","y","z"}

UpperLetter == {"A","B","C","D","E","F","G","H","I","J","K","L","M",
                "N","O","P","Q","R","S","T","U","V","W","X","Y","Z"}

\* \w of the re module
WordChar == Digit \cup LowerLetter \cup UpperLetter \cup {"_"}

DigitVal(c) ==
    CASE c = "0" -> 0 [] c = "1" -> 1 [] c = "2" -> 2 [] c = "3" -> 3
      [] c = "4" -> 4 [] c = "5" -> 5 [] c = "6" -> 6 [] c = "7" -> 7
      [] c = "8" -> 8 [] c = "9" -> 9

\* str.lower() on one character
LowerChar(c) ==
    CASE c = "A" -> "a" [] c = "B" -> "b" [] c = "C" -> "c" [] c = "D" -> "d"
      [] c = "E" -> "e" [] c = "F" -> "f" [] c = "G" -> "g" [] c = "H" -> "h"
      [] c = "I" -> "i" [] c = "J" -> "j" [] c = "K" -> "k" [] c = "L" -> "l"
      [] c = "M" -> "m" [] c = "N" -> "n" [] c = "O" -> "o" [] c = "P" -> "p"
      [] c = "Q" -> "q" [] c = "R" -> "r" [] c = "S" -> "s" [] c = "T" -> "t"
      [] c = "U" -> "u" [] c = "V" -> "v" [] c = "W" -> "w" [] c = "X" -> "x"
      [] c = "Y" -> "y" [] c = "Z" -> "z" [] OTHER -> c

Lower(s) == [i \in 1..Len(s) |-> LowerChar(s[i])]

\* s.startswith(p)
StartsWith(s, p) == Len(p) <= Len(s) /\ SubSeq(s, 1, Len(p)) = p

\* p in s
Contains(s, p) ==
    \E i \in 0..(Len(s) - Len(p)) : SubSeq(s, i + 1, i + Len(p)) = p

\* the number of consecutive characters of s, from index i on, that lie in S
RECURSIVE RunLen(_, _, _)
RunLen(s, i, S) ==
    IF i <= Len(s) /\ s[i] \in S THEN 1 + RunLen(s, i + 1, S) ELSE 0

\* int(s) for a string of decimal digits
RECURSIVE ToInt(_)
ToInt(s) ==
    IF s = <<>> THEN 0
    ELSE 10 * ToInt(SubSeq(s, 1, Len(s) - 1)) + DigitVal(s[Len(s)])

\* the index of the last "." of s, 0 when it has none (str.rfind)
LastDot(s) ==
    LET dots == {i \in 1..Len(s) : s[i] = "."}
    IN  IF dots = {} THEN 0 ELSE CHOOSE i \in dots : \A j \in dots : j <= i

\* os.path.splitext on one path component: <<root, ext>>; leading dots are
\* no extension
Splitext(s) ==
    LET d == LastDot(s)
    IN  IF d > 0 /\ \E i \in 1..(d - 1) : s[i] # "."
        THEN <<SubSeq(s, 1, d - 1), SubSeq(s, d, Len(s))>>
        ELSE <<s, <<>>>>

\* os.path.basename / os.path.dirname on a path of components
Basename(path) == IF path = <<>> THEN <<>> ELSE path[Len(path)]
Dirname(path) == IF path = <<>> THEN <<>> ELSE SubSeq(path, 1, Len(path) - 1)

(***************************************************************************)
(* Module constants                                                        *)
(***************************************************************************)
s_IN == <<"I","N","_">>
s_COCO == <<"C","O","C","O","_">>
s_training == <<"t","r","a","i","n","i","n","g">>
s_extracted == <<"e","x","t","r","a","c","t","e","d","_">>
s_dot == <<".">>
s_dollar == <<"$">>
s_dotdot == <<".",".">>
s_tar == <<".","t","a","r">>
s_targz == <<".","t","a","r",".","g","z">>
s_zip == <<".","z","i","p">>
s_instances == <<"i","n","s","t","a","n","c","e","s">>
s_xmlpat == <<".","x","m","l">>
s_jsonpat == <<".","j","s","o","n">>

_valid_extensions == {<<".","j","p","g">>, <<".","p","n","g">>}
_valid_phases == <<<<"t","r","a","i","n">>, <<"t","e","s","t">>, <<"v","a","l">>>>

\* n\d{8} and \d{12} of the two label patterns
SynsetDigits == 8
CocoDigits == 12

\* a label is a str (synset id, lookup id) or an int (COCO image id)
StrLabel(s) == [t |-> "str", s |-> s, n |-> 0]
IntLabel(n) == [t |-> "int", s |-> <<>>, n |-> n]

(***************************************************************************)
(* The synset-lookup service: an opaque, stable identifier of its inputs   *)
(***************************************************************************)
synset_offset(term, hint) == <<"s","y","n","(">> \o term \o <<",">> \o hint \o <<")">>

(***************************************************************************)
(* guess_phase                                                             *)
(***************************************************************************)
IsPhaseName(elem) ==
    \E k \in 1..Len(_valid_phases) : Contains(Lower(elem), _valid_phases[k])

\* the components are scanned from the last one backward; i is the index of
\* the component under test
RECURSIVE PhaseScan(_, _)
PhaseScan(path, i) ==
    IF i = 0 THEN <<>>
    ELSE IF path[i] = <<>> THEN PhaseScan(path, i - 1)
    ELSE IF IsPhaseName(path[i]) THEN path[i]
    ELSE PhaseScan(path, i - 1)

guess_phase(path) == PhaseScan(path, Len(path))

(***************************************************************************)
(* guess_label                                                             *)
(***************************************************************************)
\* _synset_label_pattern.match(e):
\*   ^(?P<LABEL>n\d{8})(?P<EXT>_\d+)?(_(?P<META>\w+))?
\* Both optional groups are greedy and nothing follows them, so the first
\* choice of the matcher stands.
SynsetMatch(e) ==
    LET n     == SynsetDigits + 1
        ok    == Len(e) >= n /\ e[1] = "n" /\ RunLen(e, 2, Digit) >= SynsetDigits
        dig   == IF ok /\ Len(e) > n /\ e[n + 1] = "_" THEN RunLen(e, n + 2, Digit) ELSE 0
        hasE  == dig >= 1
        after == IF hasE THEN n + 1 + dig ELSE n
        wrd   == IF ok /\ Len(e) > after /\ e[after + 1] = "_"
                 THEN RunLen(e, after + 2, WordChar) ELSE 0
        hasM  == wrd >= 1
    IN  [matched |-> ok,
         LABEL   |-> IF ok THEN SubSeq(e, 1, n) ELSE <<>>,
         hasEXT  |-> hasE,
         EXT     |-> IF hasE THEN SubSeq(e, n + 1, n + 1 + dig) ELSE <<>>,
         hasMETA |-> hasM,
         META    |-> IF hasM THEN SubSeq(e, after + 2, after + 1 + wrd) ELSE <<>>]

\* _coco_label_pattern.match(e):  ^(?P<META>COCO_.*)?(?P<LABEL>\d{12})$
\* The label is the last twelve characters; what precedes it is META and
\* has to start with COCO_, or is absent.
CocoMatch(e) ==
    LET k    == Len(e) - CocoDigits
        tail == k >= 0 /\ \A i \in (k + 1)..Len(e) : e[i] \in Digit
        pre  == IF k > 0 THEN SubSeq(e, 1, k) ELSE <<>>
        ok   == tail /\ (k = 0 \/ StartsWith(pre, s_COCO))
    IN  [matched |-> ok,
         LABEL   |-> IF ok THEN SubSeq(e, k + 1, Len(e)) ELSE <<>>,
         hasMETA |-> ok /\ k > 0,
         META    |-> IF ok THEN pre ELSE <<>>]

\* what a call of guess_label does: status "ok" with the returned triple,
\* or the exception it raises; lookup tells whether line 174 (the use of
\* _syn_cache.synset_offset) was reached
LabelResult(status, label, full_label, meta, lookup) ==
    [status |-> status, label |-> label, full_label |-> full_label,
     meta |-> meta, lookup |-> lookup]

\* lines 162-164: label + match.group('EXT') or '' parses as
\* (label + EXT) or '', and str + None raises TypeError
SynsetBranch(m) ==
    IF m.hasEXT
    THEN LabelResult("ok", StrLabel(m.LABEL), m.LABEL \o m.EXT,
                     s_IN \o (IF m.hasMETA THEN m.META ELSE <<>>), FALSE)
    ELSE LabelResult("TypeError", StrLabel(<<>>), <<>>, <<>>, FALSE)

\* lines 166-175
CocoOrLookup(path, syn) ==
    LET elem == Splitext(Basename(path))[1]
        m    == CocoMatch(elem)
        id   == synset_offset(Basename(Dirname(path)), elem)
    IN  IF m.matched
        THEN LabelResult("ok", IntLabel(ToInt(m.LABEL)), m.LABEL,
                         s_COCO \o (IF m.hasMETA THEN m.META ELSE <<>>), FALSE)
        ELSE IF syn
        THEN LabelResult("ok", StrLabel(id), id, id, TRUE)
        ELSE LabelResult("AttributeError", StrLabel(<<>>), <<>>, <<>>, TRUE)

\* a scan that tests the file name alone and never the directories above it
LabelScanFileOnly(path, i, syn) ==
    IF i > 0 /\ path[i] # <<>> /\ SynsetMatch(path[i]).matched
    THEN SynsetBranch(SynsetMatch(path[i]))
    ELSE CocoOrLookup(path, syn)

\* lines 157-164: the components from the last one backward
RECURSIVE LabelScan(_, _, _)
LabelScan(path, i, syn) ==
    IF i = 0 THEN CocoOrLookup(path, syn)
    ELSE IF path[i] = <<>> THEN LabelScan(path, i - 1, syn)
    ELSE IF SynsetMatch(path[i]).matched THEN SynsetBranch(SynsetMatch(path[i]))
    ELSE LabelScan(path, i - 1, syn)

guess_label(path, syn) == LabelScan(path, Len(path), syn)

(***************************************************************************)
(* Names of the datasets the model runs on (the examples of the docstring  *)
(* of gather_images and variants of them)                                  *)
(***************************************************************************)
d_root == <<"d","a","t","a">>
d_train == <<"t","r","a","i","n">>
d_val == <<"v","a","l","2","0","1","4">>
d_cheeses == <<"c","h","e","e","s","e","s">>
d_synset == <<"n","0","4","4","2","2","7","2","7">>
f_blue == <<"b","l","u","e","_","c","h","e","e","s","e",".","j","p","g">>
f_s41 == <<"n","0","4","4","2","2","7","2","7","_","4","1",".","j","p","g">>
f_s43 == <<"n","0","4","4","2","2","7","2","7","_","4","3",".","J","P","G">>
f_s42meta == <<"n","0","4","4","2","2","7","2","7","_","4","2","_","b","l","u","e","c","h","e","e","s","e",".","j","p","g">>
f_s41train == <<"n","0","4","4","2","2","7","2","7","_","4","1","_","t","r","a","i","n","i","n","g",".","j","p","g">>
f_smeta == <<"n","0","4","4","2","2","7","2","7","_","r","a","w",".","j","p","g">>
f_short == <<"n","0","4","4","2","2","7","2","_","4","1",".","j","p","g">>
f_coco == <<"C","O","C","O","_","v","a","l","2","0","1","4","_","0","0","0","0","0","0","0","0","6","8","1","8",".","j","p","g">>
f_bare == <<"0","0","0","0","0","0","0","0","6","8","1","8",".","p","n","g">>
f_long == <<"1","0","0","0","0","0","0","0","0","6","8","1","8",".","j","p","g">>
f_other == <<"n","0","9","9","9","9","9","9","9","_","7",".","j","p","g">>
f_notes == <<"n","o","t","e","s",".","t","x","t">>
f_hidden == <<".","n","0","4","4","2","2","7","2","7","_","9",".","j","p","g">>
d_ann == <<"a","n","n">>
a_tar == <<"A","n","n","o","t","a","t","i","o","n",".","t","a","r">>
a_tgz == <<"A","n","n","o","t","a","t","i","o","n",".","t","a","r",".","g","z">>
a_zip == <<"a","n","n","o","t","a","t","i","o","n","s",".","z","i","p">>
a_TGZ == <<"S","E","T","S",".","T","A","R",".","G","Z">>
a_inner == <<"n","0","4","4","2","2","7","2","7",".","t","a","r">>
a_twin_tar == <<"a",".","t","a","r">>
a_twin_zip == <<"a",".","z","i","p">>
d_evil == <<"e","x","t","r","a","c","t","e","d","_","n","0","4","4","2","2","7","2","7","_","e","v","i","l">>
d_other == <<"n","0","9","9","9","9","9","9","9">>
x_41 == <<"n","0","4","4","2","2","7","2","7","_","4","1",".","x","m","l">>
x_7 == <<"n","0","9","9","9","9","9","9","9","_","7",".","x","m","l">>
x_v2 == <<"n","0","4","4","2","2","7","2","7","_","4","1",".","v","2",".","x","m","l">>
x_late == <<"l","a","t","e",".","x","m","l">>
x_evil == <<"e","v","i","l",".","x","m","l">>
x_readme == <<"r","e","a","d","m","e",".","t","x","t">>
j_val == <<"i","n","s","t","a","n","c","e","s","_","v","a","l","2","0","1","4",".","j","s","o","n">>
j_train == <<"i","n","s","t","a","n","c","e","s","_","t","r","a","i","n",".","j","s","o","n">>
j_cap == <<"c","a","p","t","i","o","n","s","_","v","a","l","2","0","1","4",".","j","s","o","n">>
d_valb == <<"v","a","l">>
f_s4 == <<"n","0","4","4","2","2","7","2","7","_","4",".","j","p","g">>
f_s41png == <<"n","0","4","4","2","2","7","2","7","_","4","1",".","p","n","g">>
f_barej == <<"0","0","0","0","0","0","0","0","6","8","1","8",".","j","p","g">>
f_bare2 == <<"0","0","0","0","0","0","0","0","6","8","1","9",".","j","p","g">>
x_43 == <<"n","0","4","4","2","2","7","2","7","_","4","3",".","x","m","l">>
c_cat == <<"c","a","t">>
c_dog == <<"d","o","g">>
c_animal == <<"a","n","i","m","a","l">>

(***************************************************************************)
(* Calls of guess_label and guess_phase on a path                          *)
(***************************************************************************)
\* the number of directories above the file name in an input path
MaxDepth == 2

LabelDirs == {d_root, d_train, d_val, d_cheeses, d_synset, <<>>}
LabelFiles == {f_blue, f_s41, f_s43, f_s42meta, f_s41train, f_smeta, f_short,
               f_coco, f_bare, f_long, f_other, f_notes}

RECURSIVE DirPaths(_)
DirPaths(k) ==
    IF k = 0 THEN {<<>>}
    ELSE DirPaths(k - 1) \cup
         {Append(p, d) : p \in {q \in DirPaths(k - 1) : Len(q) = k - 1}, d \in LabelDirs}

LabelPaths == {Append(p, f) : p \in DirPaths(MaxDepth), f \in LabelFiles}

NoLabelResult == LabelResult("none", StrLabel(<<>>), <<>>, <<>>, FALSE)
NoPhaseResult == [done |-> FALSE, phase |-> <<>>]

IdleLabel == lpath = <<>> /\ lres = NoLabelResult /\ lphase = NoPhaseResult

NoCap == [inf |-> TRUE, n |-> 0]

IdleGather ==
    /\ root_path = <<>> /\ dataset = {} /\ max_keep = NoCap /\ gstack = <<>>
    /\ imagedata = <<>> /\ counts = <<>> /\ gseen = <<>> /\ gstatus = "idle"

NoFilter == [on |-> FALSE, label |-> StrLabel(<<>>)]
NoPending == [has |-> FALSE, path |-> <<>>]

IdleWalk ==
    /\ fs = <<>> /\ wroot = <<>> /\ wpat = [word |-> TRUE, lit |-> <<>>]
    /\ wfilter = NoFilter /\ wstack = <<>> /\ wpending = NoPending
    /\ wstatus = "idle" /\ yields = <<>> /\ outcomes = <<>>
    /\ reached = {} /\ extracted = <<>> /\ removed = <<>>

NoCall == [stage |-> "none", src |-> 0]

IdleEmit ==
    /\ annotation = <<>> /\ mphase = <<>> /\ phases_done = {} /\ vi = 0
    /\ phase_cache = <<>> /\ parsed = <<>> /\ out = <<>> /\ gb = NoCall
    /\ elog = <<>> /\ mstatus = "idle"

InitLabel ==
    /\ syn_cache \in BOOLEAN
    /\ lpath \in LabelPaths
    /\ lres = NoLabelResult
    /\ lphase = NoPhaseResult
    /\ IdleGather
    /\ IdleWalk
    /\ IdleEmit

CallGuessLabel ==
    /\ lres.status = "none"
    /\ lres' = guess_label(lpath, syn_cache)
    /\ UNCHANGED <<EmitVars, syn_cache, lpath, lphase, GatherVars, WalkVars>>

CallGuessPhase ==
    /\ ~lphase.done
    /\ lphase' = [done |-> TRUE, phase |-> guess_phase(lpath)]
    /\ UNCHANGED <<EmitVars, syn_cache, lpath, lres, GatherVars, WalkVars>>

NextLabel == CallGuessLabel \/ CallGuessPhase


SpecLabel == InitLabel /\ [][NextLabel]_vars

(***************************************************************************)
(* Properties of guess_label                                               *)
(***************************************************************************)
\* the component guess_label stops at: the last non-empty component that
\* matches the synset pattern, 0 when none does
FirstSynset(path) ==
    LET hit == {i \in 1..Len(path) : path[i] # <<>> /\ SynsetMatch(path[i]).matched}
    IN  IF hit = {} THEN 0 ELSE CHOOSE i \in hit : \A j \in hit : j <= i

\* C4: on a path whose first synset-matching component (from the file name
\* backward) has no EXT part, guess_label returns label = LABEL,
\* full_label = LABEL alone and meta = "IN_" + (META or ""); with an EXT
\* part full_label = LABEL + EXT.
C4_LabelOfSynsetComponent ==
    (lres.status # "none" /\ FirstSynset(lpath) > 0) =>
        LET m == SynsetMatch(lpath[FirstSynset(lpath)])
        IN  /\ lres.status = "ok"
            /\ lres.label = StrLabel(m.LABEL)
            /\ lres.full_label = (IF m.hasEXT THEN m.LABEL \o m.EXT ELSE m.LABEL)
            /\ lres.meta = s_IN \o (IF m.hasMETA THEN m.META ELSE <<>>)

\* C5: on a path with a component that matches the synset pattern,
\* guess_label never reaches the synset lookup, whether or not the service
\* was initialised; the lookup is reached only when neither the synset
\* pattern nor the COCO pattern matches.
C5_NoLookupOnSynsetPath ==
    lres.status # "none" =>
        /\ (FirstSynset(lpath) > 0 => ~lres.lookup)
        /\ (lres.lookup =>
                /\ FirstSynset(lpath) = 0
                /\ ~CocoMatch(Splitext(Basename(lpath))[1]).matched)

\* a call returned on a path whose synset component is a directory above a
\* file name that matches neither pattern
C5_Witness ==
    /\ lres.status # "none"
    /\ FirstSynset(lpath) > 0
    /\ FirstSynset(lpath) < Len(lpath)
    /\ ~CocoMatch(Splitext(Basename(lpath))[1]).matched

(***************************************************************************)
(* gather_images                                                           *)
(***************************************************************************)
IsPrefix(p, q) == Len(p) <= Len(q) /\ SubSeq(q, 1, Len(p)) = p

\* os.path.isdir and os.listdir on the dataset
IsDatasetDir(files, path) == \E f \in files : Len(f) > Len(path) /\ IsPrefix(path, f)
DatasetListdir(files, path) ==
    {f[Len(path) + 1] : f \in {g \in files : Len(g) > Len(path) /\ IsPrefix(path, g)}}

\* names starting with "." or "$" are hidden
IsHidden(s0) == StartsWith(s0, s_dot) \/ StartsWith(s0, s_dollar)

\* the comparison of line 210 off by one: it lets cap + 1 images through
CapReachedStrict(count, cap) == ~cap.inf /\ count > cap.n

\* line 210: counts[label] >= max_keep_per_label (never true of np.inf)
CapReached(count, cap) == ~cap.inf /\ count >= cap.n

ImageRecord(s0, r) ==
    [path |-> s0, label |-> r.label, full_label |-> r.full_label, meta |-> r.meta]

PhaseKeys(data) == {data[i].phase : i \in 1..Len(data)}

\* lines 215-221 without the loop over the keys: "training" whenever the
\* image has no phase of its own
AssumedPhasesTraining(phase, data) ==
    IF phase # <<>> THEN {phase} ELSE {s_training}

\* lines 215-221: the phases an image without a phase of its own can get.
\* The loop over imagedata.keys() leaves its variable at the last key it
\* visited (the inner break leaves only the inner loop); the order of the
\* keys of a dict is an implementation matter, so any key can be the last.
\* With no key at all the variable stays empty and "training" is taken.
AssumedPhases(phase, data) ==
    IF phase # <<>> THEN {phase}
    ELSE IF data = <<>> THEN {s_training}
    ELSE PhaseKeys(data)

\* lines 224-227
AddToBucket(data, phase, rec) ==
    IF phase \notin PhaseKeys(data)
    THEN Append(data, [phase |-> phase, vs |-> <<rec>>])
    ELSE [i \in 1..Len(data) |->
            IF data[i].phase = phase
            THEN [data[i] EXCEPT !.vs = Append(@, rec)]
            ELSE data[i]]

\* lines 208-213 without the increment of line 213
CountUpFirstOnly(cnt, label) ==
    IF label \notin DOMAIN cnt THEN (label :> 1) @@ cnt ELSE cnt

\* lines 208-213 when the image is kept
CountUp(cnt, label) ==
    IF label \notin DOMAIN cnt THEN (label :> 1) @@ cnt
    ELSE [cnt EXCEPT ![label] = @ + 1]

GTop == gstack[Len(gstack)]
GPop(s0) == [gstack EXCEPT ![Len(gstack)].rest = @ \ {s0}]
GFull(s0) == Append(GTop.dir, s0)
GIsImage(s0) == Lower(Splitext(s0)[2]) \in _valid_extensions

\* lines 194-196
GatherHidden ==
    /\ gstatus = "run" /\ gstack # <<>>
    /\ \E s0 \in GTop.rest :
        /\ IsHidden(s0)
        /\ gstack' = GPop(s0)
    /\ UNCHANGED <<EmitVars, WalkVars, syn_cache, LabelVars, root_path, dataset, max_keep, imagedata,
                   counts, gseen, gstatus>>

\* lines 199-201: the recursive call lists the directory
GatherDir ==
    /\ gstatus = "run" /\ gstack # <<>>
    /\ \E s0 \in GTop.rest :
        /\ ~IsHidden(s0)
        /\ IsDatasetDir(dataset, GFull(s0))
        /\ gstack' = Append(GPop(s0),
                            [dir |-> GFull(s0), rest |-> DatasetListdir(dataset, GFull(s0))])
    /\ UNCHANGED <<EmitVars, WalkVars, syn_cache, LabelVars, root_path, dataset, max_keep, imagedata,
                   counts, gseen, gstatus>>

\* lines 202-204
GatherSkipExtension ==
    /\ gstatus = "run" /\ gstack # <<>>
    /\ \E s0 \in GTop.rest :
        /\ ~IsHidden(s0)
        /\ ~IsDatasetDir(dataset, GFull(s0))
        /\ ~GIsImage(s0)
        /\ gstack' = GPop(s0)
    /\ UNCHANGED <<EmitVars, WalkVars, syn_cache, LabelVars, root_path, dataset, max_keep, imagedata,
                   counts, gseen, gstatus>>

\* line 206 raising: the exception leaves every frame of the recursion
GatherLabelError ==
    /\ gstatus = "run" /\ gstack # <<>>
    /\ \E s0 \in GTop.rest :
        /\ ~IsHidden(s0)
        /\ ~IsDatasetDir(dataset, GFull(s0))
        /\ GIsImage(s0)
        /\ guess_label(GFull(s0), syn_cache).status # "ok"
        /\ gstack' = GPop(s0)
        /\ gstatus' = "error"
    /\ UNCHANGED <<EmitVars, WalkVars, syn_cache, LabelVars, root_path, dataset, max_keep, imagedata,
                   counts, gseen>>

\* lines 206-211: the label is at its cap and the image is dropped
GatherDrop ==
    /\ gstatus = "run" /\ gstack # <<>>
    /\ \E s0 \in GTop.rest :
        LET r == guess_label(GFull(s0), syn_cache)
        IN  /\ ~IsHidden(s0)
            /\ ~IsDatasetDir(dataset, GFull(s0))
            /\ GIsImage(s0)
            /\ r.status = "ok"
            /\ r.label \in DOMAIN counts
            /\ CapReached(counts[r.label], max_keep)
            /\ gseen' = Append(gseen, ImageRecord(GFull(s0), r))
            /\ gstack' = GPop(s0)
    /\ UNCHANGED <<EmitVars, WalkVars, syn_cache, LabelVars, root_path, dataset, max_keep, imagedata,
                   counts, gstatus>>

\* lines 206-227: the image is counted and appended to its phase bucket
GatherKeep ==
    /\ gstatus = "run" /\ gstack # <<>>
    /\ \E s0 \in GTop.rest :
        LET r == guess_label(GFull(s0), syn_cache)
        IN  /\ ~IsHidden(s0)
            /\ ~IsDatasetDir(dataset, GFull(s0))
            /\ GIsImage(s0)
            /\ r.status = "ok"
            /\ r.label \in DOMAIN counts => ~CapReached(counts[r.label], max_keep)
            /\ counts' = CountUp(counts, r.label)
            /\ \E phase \in AssumedPhases(guess_phase(GFull(s0)), imagedata) :
                 imagedata' = AddToBucket(imagedata, phase, ImageRecord(GFull(s0), r))
            /\ gseen' = Append(gseen, ImageRecord(GFull(s0), r))
            /\ gstack' = GPop(s0)
    /\ UNCHANGED <<EmitVars, WalkVars, syn_cache, LabelVars, root_path, dataset, max_keep, gstatus>>

\* the loop of line 193 is exhausted: the call returns to its caller
GatherReturn ==
    /\ gstatus = "run" /\ gstack # <<>>
    /\ GTop.rest = {}
    /\ gstack' = SubSeq(gstack, 1, Len(gstack) - 1)
    /\ gstatus' = IF Len(gstack) = 1 THEN "done" ELSE "run"
    /\ UNCHANGED <<EmitVars, WalkVars, syn_cache, LabelVars, root_path, dataset, max_keep, imagedata,
                   counts, gseen>>

NextGather ==
    \/ GatherHidden \/ GatherDir \/ GatherSkipExtension \/ GatherLabelError
    \/ GatherDrop \/ GatherKeep \/ GatherReturn

(***************************************************************************)
(* A run of gather_images(root_path, {}, {}, max_keep_per_label)           *)
(***************************************************************************)
\* the largest number of files in a dataset, and the largest finite cap
MaxFiles == 4
MaxCap == 2

DatasetFiles ==
    {<<d_root, d_train, f_s41>>, <<d_root, d_train, f_s43>>,
     <<d_root, d_train, f_other>>, <<d_root, d_val, f_s42meta>>,
     <<d_root, d_val, f_coco>>, <<d_root, f_s41>>, <<d_root, f_s41train>>,
     <<d_root, d_synset, f_blue>>, <<d_root, d_cheeses, f_short>>,
     <<d_root, f_notes>>, <<d_root, f_hidden>>}

RECURSIVE SubsetsUpTo(_, _)
SubsetsUpTo(S, k) ==
    IF k = 0 THEN {{}}
    ELSE LET smaller == SubsetsUpTo(S, k - 1)
         IN  smaller \cup {T \cup {x} : T \in smaller, x \in S}

Caps == {[inf |-> FALSE, n |-> k] : k \in 0..MaxCap} \cup {NoCap}

InitGather ==
    /\ syn_cache \in BOOLEAN
    /\ IdleLabel
    /\ IdleWalk
    /\ IdleEmit
    /\ root_path = <<d_root>>
    /\ dataset \in SubsetsUpTo(DatasetFiles, MaxFiles)
    /\ max_keep \in Caps
    /\ gstack = <<[dir |-> root_path, rest |-> DatasetListdir(dataset, root_path)]>>
    /\ imagedata = <<>>
    /\ counts = <<>>
    /\ gseen = <<>>
    /\ gstatus = "run"

SpecGather == InitGather /\ [][NextGather]_vars

(***************************************************************************)
(* Properties of gather_images                                             *)
(***************************************************************************)
Min(a, b) == IF a <= b THEN a ELSE b

\* the images of a label that were encountered, in traversal order
SeenOf(l) == SelectSeq(gseen, LAMBDA r : r.label = l)

\* the records of a label in one bucket, and their number over all buckets
BucketOf(data, i, l) == SelectSeq(data[i].vs, LAMBDA r : r.label = l)

RECURSIVE KeptCount(_, _, _)
KeptCount(data, i, l) ==
    IF i = 0 THEN 0 ELSE Len(BucketOf(data, i, l)) + KeptCount(data, i - 1, l)

KeptOf(data, l) ==
    UNION {{data[i].vs[j] : j \in {k \in 1..Len(data[i].vs) : data[i].vs[k].label = l}} :
           i \in 1..Len(data)}

\* C1: with an integer cap >= 1, of the n images of a label encountered so
\* far exactly min(n, cap) are in the phase buckets, they are the first
\* min(n, cap) in traversal order, and counts[label] is min(n, cap): once
\* it has reached the cap later images are dropped and it stays.
C1_CapKeepsFirst ==
    (~max_keep.inf /\ max_keep.n >= 1) =>
        \A l \in {gseen[i].label : i \in 1..Len(gseen)} :
            LET s == SeenOf(l)
                k == Min(Len(s), max_keep.n)
            IN  /\ KeptCount(imagedata, Len(imagedata), l) = k
                /\ KeptOf(imagedata, l) = {s[i] : i \in 1..k}
                /\ l \in DOMAIN counts
                /\ counts[l] = k

\* gathering is over, a label was seen more often than the cap of 2 or
\* more allows, and its kept images lie in more than one bucket
C1_Witness ==
    /\ gstatus = "done"
    /\ ~max_keep.inf /\ max_keep.n >= 2
    /\ \E l \in {gseen[i].label : i \in 1..Len(gseen)} :
        /\ Len(SeenOf(l)) > max_keep.n
        /\ \E i, j \in 1..Len(imagedata) :
            i # j /\ BucketOf(imagedata, i, l) # <<>> /\ BucketOf(imagedata, j, l) # <<>>

(***************************************************************************)
(* The file system listarchive works on                                    *)
(*                                                                         *)
(* fs maps every existing path to [kind, content]; kind is "dir" or        *)
(* "file" and content names what a file holds (Archive, below, for a       *)
(* container).  Every ancestor of an existing path exists.                 *)
(***************************************************************************)
DirNode == [kind |-> "dir", content |-> ""]
FileNode(c) == [kind |-> "file", content |-> c]

Exists(f, p) == p \in DOMAIN f
IsDir(f, p) == p \in DOMAIN f /\ f[p].kind = "dir"
Listdir(f, p) == {q[Len(p) + 1] : q \in {r \in DOMAIN f : Len(r) = Len(p) + 1 /\ IsPrefix(p, r)}}

\* os.remove
Remove(f, p) == [q \in DOMAIN f \ {p} |-> f[q]]

\* os.makedirs(p, exist_ok=True)
Makedirs(f, p) ==
    [q \in DOMAIN f \cup {SubSeq(p, 1, k) : k \in 1..Len(p)} |->
        IF q \in DOMAIN f THEN f[q] ELSE DirNode]

\* a file written at p, with the directories above it
WriteFile(f, p, node) ==
    LET g == IF Len(p) > 1 THEN Makedirs(f, SubSeq(p, 1, Len(p) - 1)) ELSE f
    IN  [q \in DOMAIN g \cup {p} |-> IF q = p THEN node ELSE g[q]]

\* os.path.abspath of an absolute path: ".." steps up, never above the root
RECURSIVE Normalize(_)
Normalize(p) ==
    IF p = <<>> THEN <<>>
    ELSE LET front == Normalize(SubSeq(p, 1, Len(p) - 1))
             last  == p[Len(p)]
         IN  IF last = s_dotdot
             THEN (IF front = <<>> THEN <<>> ELSE SubSeq(front, 1, Len(front) - 1))
             ELSE Append(front, last)

\* the path as the string os.path functions see
RECURSIVE PathString(_)
PathString(p) ==
    IF p = <<>> THEN <<>>
    ELSE PathString(SubSeq(p, 1, Len(p) - 1)) \o <<"/">> \o p[Len(p)]

(***************************************************************************)
(* listarchive: names, extensions, the traversal check                     *)
(***************************************************************************)
\* lines 80-82: the dotted suffixes of the base name are put in front of
\* the extension.  (On a base name whose only dots lead it, the loop of the
\* source never ends; no name of the model is of that shape.)
RECURSIVE PeelExt(_, _)
PeelExt(shortname, ext) ==
    IF Contains(shortname, s_dot) /\ Splitext(shortname)[2] # <<>>
    THEN PeelExt(Splitext(shortname)[1], Splitext(shortname)[2] \o ext)
    ELSE ext

\* lines 76-82: only the last suffix is lower-cased
CompoundExt(fname) == PeelExt(Splitext(fname)[1], Lower(Splitext(fname)[2]))

\* line 84
IsArchiveExt(ext) == ext \in {s_tar, s_targz, s_zip}

\* line 89: 'extracted_' + basename, beside the archive
ExtractedPath(path) ==
    Append(Dirname(path), s_extracted \o Splitext(Basename(path))[1])

\* the extension patterns of the source: '\.\w+' (word) and a dot followed
\* by literal letters ('\.json', '\.xml')
WordPattern == [word |-> TRUE, lit |-> <<>>]
LitPattern(s) == [word |-> FALSE, lit |-> s]

\* line 85: re.match(extension_pattern, ext, flags=re.IGNORECASE), a match
\* of a prefix of ext
PatternMatches(pat, ext) ==
    IF pat.word
    THEN Len(ext) >= 2 /\ ext[1] = "." /\ ext[2] \in WordChar
    ELSE StartsWith(Lower(ext), Lower(pat.lit))

\* lines 101-108: os.path.commonprefix compares the two strings character
\* by character
is_within_directory(directory, target) ==
    StartsWith(PathString(Normalize(target)), PathString(Normalize(directory)))

(***************************************************************************)
(* Archives: what tarfile / zipfile find in a container                    *)
(***************************************************************************)
Member(name, node) == [name |-> name, node |-> node]

\* format "tar" is read by tarfile.open (plain or gzip-compressed), "zip" by
\* ZipFile; members are in archive order, their names are paths relative
\* to the destination
Archive(content) ==
    CASE content = "voc" ->
            [format |-> "tar",
             members |-> <<Member(<<d_synset, x_41>>, FileNode("xml_41")),
                           Member(<<d_synset, x_43>>, FileNode("xml_43")),
                           Member(<<d_synset, x_v2>>, FileNode("xml_41")),
                           Member(<<d_other, x_7>>, FileNode("xml_7")),
                           Member(<<x_readme>>, FileNode("text"))>>]
      [] content = "leaf" ->
            [format |-> "tar",
             members |-> <<Member(<<x_41>>, FileNode("xml"))>>]
      [] content = "zleaf" ->
            [format |-> "zip",
             members |-> <<Member(<<s_dotdot, x_7>>, FileNode("xml"))>>]
      [] content = "nest" ->
            [format |-> "tar",
             members |-> <<Member(<<a_inner>>, FileNode("leaf")),
                           Member(<<x_7>>, FileNode("xml"))>>]
      [] content = "twins" ->
            [format |-> "tar",
             members |-> <<Member(<<a_twin_tar>>, FileNode("leaf")),
                           Member(<<a_twin_zip>>, FileNode("zleaf"))>>]
      [] content = "evil" ->
            [format |-> "tar",
             members |-> <<Member(<<x_41>>, FileNode("xml")),
                           Member(<<s_dotdot, s_dotdot, x_evil>>, FileNode("xml"))>>]
      [] content = "sib" ->
            [format |-> "tar",
             members |-> <<Member(<<x_41>>, FileNode("xml")),
                           Member(<<s_dotdot, d_evil, x_late>>, FileNode("xml"))>>]
      [] content = "nestsib" ->
            [format |-> "tar",
             members |-> <<Member(<<a_inner>>, FileNode("sib")),
                           Member(<<x_7>>, FileNode("xml"))>>]
      [] content = "coco" ->
            [format |-> "zip",
             members |-> <<Member(<<j_cap>>, FileNode("captions")),
                           Member(<<j_val>>, FileNode("instances_val")),
                           Member(<<j_train>>, FileNode("instances_train"))>>]
      [] OTHER -> [format |-> "none", members |-> <<>>]

\* the library the extension selects can read the file (lines 99-100, 121-122)
Readable(f, path, ext) ==
    /\ Exists(f, path)
    /\ f[path].kind = "file"
    /\ Archive(f[path].content).format = (IF ext = s_zip THEN "zip" ELSE "tar")

\* where extractall writes a member: TarFile.extractall joins the name to
\* the destination as it is; ZipFile.extractall drops the ".." components
MemberTarget(dest, name, format) ==
    IF format = "zip"
    THEN dest \o SelectSeq(name, LAMBDA c : c # s_dotdot)
    ELSE Normalize(dest \o name)

RECURSIVE ExtractAll(_, _, _, _, _)
ExtractAll(f, dest, members, format, i) ==
    IF i > Len(members) THEN f
    ELSE ExtractAll(WriteFile(f, MemberTarget(dest, members[i].name, format), members[i].node),
                    dest, members, format, i + 1)

\* lines 112-115: no member fails the test of safe_extract
SafeMembers(dest, members) ==
    \A i \in 1..Len(members) : is_within_directory(dest, dest \o members[i].name)

\* lines 99-123: the archive can be opened and, for a tar, passes safe_extract
Extractable(f, path, ext) ==
    /\ Readable(f, path, ext)
    /\ ext # s_zip => SafeMembers(ExtractedPath(path), Archive(f[path].content).members)

\* lines 98-123 when nothing raises
Extract(f, path, ext) ==
    LET a == Archive(f[path].content)
    IN  ExtractAll(Makedirs(f, ExtractedPath(path)), ExtractedPath(path),
                   a.members, a.format, 1)

(***************************************************************************)
(* listarchive, a generator: one action per branch of its body.  A frame   *)
(* of wstack is a call not yet begun ("call"), the loop of lines 68-73     *)
(* over the rest of sub_paths ("dir"), or the code after the loop of       *)
(* lines 126-129 ("post").  A generator that has yielded is suspended      *)
(* until its consumer takes the path.                                      *)
(***************************************************************************)
CallFrame(path, is_root, filt) ==
    [k |-> "call", path |-> path, is_root |-> is_root, filt |-> filt, rest |-> {}]

WTop == wstack[Len(wstack)]
WBelow == SubSeq(wstack, 1, Len(wstack) - 1)
WExt == CompoundExt(Basename(WTop.path))

Walking == wstatus = "run" /\ wstack # <<>> /\ ~wpending.has

\* line 58
Visible(f, path) == {s0 \in Listdir(f, path) : ~IsHidden(s0)}

\* voc_ann_filter (lines 305-307): label in elem
FilterAccepts(s0) == Contains(s0, wfilter.label.s)

\* lines 59-67 with the single-entry case pruned like any other directory
\* without a match
SubPathsPruneAll(sub, filt) ==
    IF ~filt THEN sub
    ELSE LET filtered == {s0 \in sub : FilterAccepts(s0)}
         IN  IF filtered # {} THEN filtered ELSE {}

\* lines 59-67: the entries the loop of line 68 descends
SubPaths(sub, filt) ==
    IF ~filt THEN sub
    ELSE LET filtered == {s0 \in sub : FilterAccepts(s0)}
         IN  IF filtered # {} THEN filtered
             ELSE IF Cardinality(sub) > 1 THEN {}
             ELSE sub

\* lines 59-64: the filter handed to the recursive calls
NewFilter(sub, filt) == filt /\ {s0 \in sub : FilterAccepts(s0)} = {}

\* lines 56-67: a directory is listed
WalkDir ==
    /\ Walking /\ WTop.k = "call"
    /\ IsDir(fs, WTop.path)
    /\ WTop.filt /\ Visible(fs, WTop.path) # {} => wfilter.label.t = "str"
    /\ wstack' = Append(WBelow,
                        [k |-> "dir", path |-> WTop.path, is_root |-> WTop.is_root,
                         filt |-> NewFilter(Visible(fs, WTop.path), WTop.filt),
                         rest |-> SubPaths(Visible(fs, WTop.path), WTop.filt)])
    /\ UNCHANGED <<EmitVars, syn_cache, LabelVars, GatherVars, fs, wroot, wpat, wfilter, wpending,
                   wstatus, yields, outcomes, reached, extracted, removed>>

\* line 61 with an int label: 'in <string>' requires string as left operand
WalkDirFilterError ==
    /\ Walking /\ WTop.k = "call"
    /\ IsDir(fs, WTop.path)
    /\ WTop.filt /\ Visible(fs, WTop.path) # {} /\ wfilter.label.t # "str"
    /\ wstatus' = "error"
    /\ UNCHANGED <<EmitVars, syn_cache, LabelVars, GatherVars, fs, wroot, wpat, wfilter, wstack,
                   wpending, yields, outcomes, reached, extracted, removed>>

\* lines 68-72: the next entry, in whatever order os.listdir gave
WalkDirNext ==
    /\ Walking /\ WTop.k = "dir"
    /\ \E s0 \in WTop.rest :
        wstack' = Append(Append(WBelow, [WTop EXCEPT !.rest = @ \ {s0}]),
                         CallFrame(Append(WTop.path, s0), FALSE, WTop.filt))
    /\ UNCHANGED <<EmitVars, syn_cache, LabelVars, GatherVars, fs, wroot, wpat, wfilter, wpending,
                   wstatus, yields, outcomes, reached, extracted, removed>>

\* line 74
WalkDirReturn ==
    /\ Walking /\ WTop.k = "dir"
    /\ WTop.rest = {}
    /\ wstack' = WBelow
    /\ UNCHANGED <<EmitVars, syn_cache, LabelVars, GatherVars, fs, wroot, wpat, wfilter, wpending,
                   wstatus, yields, outcomes, reached, extracted, removed>>

\* lines 84-87: not a container; yielded when its extension matches
WalkFile ==
    /\ Walking /\ WTop.k = "call"
    /\ ~IsDir(fs, WTop.path)
    /\ ~IsArchiveExt(WExt)
    /\ wstack' = WBelow
    /\ wpending' = IF PatternMatches(wpat, WExt)
                   THEN [has |-> TRUE, path |-> WTop.path]
                   ELSE wpending
    /\ UNCHANGED <<EmitVars, syn_cache, LabelVars, GatherVars, fs, wroot, wpat, wfilter, wstatus,
                   yields, outcomes, reached, extracted, removed>>

\* lines 89-95: the extraction directory exists and stands for the archive
WalkReuse ==
    /\ Walking /\ WTop.k = "call"
    /\ ~IsDir(fs, WTop.path)
    /\ IsArchiveExt(WExt)
    /\ Exists(fs, ExtractedPath(WTop.path))
    /\ wstack' = Append(WBelow, CallFrame(ExtractedPath(WTop.path), FALSE, WTop.filt))
    /\ reached' = reached \cup {WTop.path}
    /\ UNCHANGED <<EmitVars, syn_cache, LabelVars, GatherVars, fs, wroot, wpat, wfilter, wpending,
                   wstatus, yields, outcomes, extracted, removed>>

\* lines 97-129: the archive is extracted and its directory enumerated
WalkExtract ==
    /\ Walking /\ WTop.k = "call"
    /\ ~IsDir(fs, WTop.path)
    /\ IsArchiveExt(WExt)
    /\ ~Exists(fs, ExtractedPath(WTop.path))
    /\ Extractable(fs, WTop.path, WExt)
    /\ fs' = Extract(fs, WTop.path, WExt)
    /\ reached' = reached \cup {WTop.path}
    /\ extracted' = Append(extracted, [path |-> WTop.path, content |-> fs[WTop.path].content,
                                       call |-> Len(yields)])
    /\ wstack' = Append(Append(WBelow, [WTop EXCEPT !.k = "post"]),
                        CallFrame(ExtractedPath(WTop.path), FALSE, WTop.filt))
    /\ UNCHANGED <<EmitVars, syn_cache, LabelVars, GatherVars, wroot, wpat, wfilter, wpending,
                   wstatus, yields, outcomes, removed>>

\* lines 98-123 raising: the archive cannot be opened, or safe_extract
\* finds a member outside; line 98 has made the directory already
WalkExtractFail ==
    /\ Walking /\ WTop.k = "call"
    /\ ~IsDir(fs, WTop.path)
    /\ IsArchiveExt(WExt)
    /\ ~Exists(fs, ExtractedPath(WTop.path))
    /\ ~Extractable(fs, WTop.path, WExt)
    /\ fs' = Makedirs(fs, ExtractedPath(WTop.path))
    /\ reached' = reached \cup {WTop.path}
    /\ wstatus' = "error"
    /\ UNCHANGED <<EmitVars, syn_cache, LabelVars, GatherVars, wroot, wpat, wfilter, wstack,
                   wpending, yields, outcomes, extracted, removed>>

\* lines 131-133: an archive met inside the traversal is deleted
WalkPost ==
    /\ Walking /\ WTop.k = "post"
    /\ fs' = IF WTop.is_root THEN fs ELSE Remove(fs, WTop.path)
    /\ removed' = IF WTop.is_root THEN removed ELSE Append(removed, WTop.path)
    /\ wstack' = WBelow
    /\ UNCHANGED <<EmitVars, syn_cache, LabelVars, GatherVars, wroot, wpat, wfilter, wpending,
                   wstatus, yields, outcomes, reached, extracted>>

(***************************************************************************)
(* A caller that drains listarchive(wroot, ...) and calls it again         *)
(***************************************************************************)
\* the number of enumerations of the same path
MaxCalls == 2

\* for sub_path in listarchive(...): the consumer takes the yielded path
TakeYield ==
    /\ wstatus = "run" /\ wpending.has
    /\ yields' = [yields EXCEPT ![Len(yields)] = Append(@, wpending.path)]
    /\ wpending' = NoPending
    /\ UNCHANGED <<EmitVars, syn_cache, LabelVars, GatherVars, fs, wroot, wpat, wfilter, wstack,
                   wstatus, outcomes, reached, extracted, removed>>

\* the outermost generator is exhausted
WalkEnd ==
    /\ wstatus = "run" /\ wstack = <<>> /\ ~wpending.has
    /\ wstatus' = "done"
    /\ outcomes' = Append(outcomes, "done")
    /\ UNCHANGED <<EmitVars, syn_cache, LabelVars, GatherVars, fs, wroot, wpat, wfilter, wstack,
                   wpending, yields, reached, extracted, removed>>

\* the exception reaches the caller
WalkAbort ==
    /\ wstatus = "error" /\ Len(outcomes) < Len(yields)
    /\ outcomes' = Append(outcomes, "error")
    /\ wstack' = <<>>
    /\ UNCHANGED <<EmitVars, syn_cache, LabelVars, GatherVars, fs, wroot, wpat, wfilter, wpending,
                   wstatus, yields, reached, extracted, removed>>

\* listarchive(wroot, ...) is called again, with the same arguments
CallAgain ==
    /\ wstatus \in {"done", "error"} /\ Len(outcomes) = Len(yields)
    /\ Len(yields) < MaxCalls
    /\ wstack' = <<CallFrame(wroot, TRUE, wfilter.on)>>
    /\ wstatus' = "run"
    /\ yields' = Append(yields, <<>>)
    /\ UNCHANGED <<EmitVars, syn_cache, LabelVars, GatherVars, fs, wroot, wpat, wfilter, wpending,
                   outcomes, reached, extracted, removed>>

\* an annotation source: directory ann holding one file; listarchive is
\* called on the file or on the directory
RootArchives ==
    {<<a_tar, "voc">>, <<a_tar, "leaf">>, <<a_tar, "nest">>, <<a_tar, "twins">>,
     <<a_tar, "evil">>, <<a_tar, "nestsib">>, <<a_tar, "junk">>,
     <<a_tgz, "voc">>, <<a_tgz, "nest">>, <<a_zip, "coco">>, <<a_zip, "leaf">>,
     <<a_TGZ, "voc">>, <<a_inner, "sib">>, <<x_41, "xml">>}

Patterns == {WordPattern, LitPattern(s_xmlpat), LitPattern(s_jsonpat)}

Filters == {NoFilter, [on |-> TRUE, label |-> StrLabel(d_synset)]}

InitWalk ==
    /\ syn_cache = TRUE
    /\ IdleLabel
    /\ IdleGather
    /\ IdleEmit
    /\ \E r \in RootArchives :
        /\ wroot \in {<<d_ann, r[1]>>, <<d_ann>>}
        /\ fs = WriteFile(<<>>, <<d_ann, r[1]>>, FileNode(r[2]))
    /\ wpat \in Patterns
    /\ wfilter \in Filters
    /\ wstack = <<CallFrame(wroot, TRUE, wfilter.on)>>
    /\ wpending = NoPending
    /\ wstatus = "run"
    /\ yields = <<<<>>>>
    /\ outcomes = <<>>
    /\ reached = {}
    /\ extracted = <<>>
    /\ removed = <<>>

NextWalk ==
    \/ WalkDir \/ WalkDirNext \/ WalkDirReturn \/ WalkFile \/ WalkReuse
    \/ WalkExtract \/ WalkExtractFail \/ WalkPost
    \/ TakeYield \/ WalkEnd \/ WalkAbort \/ CallAgain

SpecWalk == InitWalk /\ [][NextWalk]_vars

(***************************************************************************)
(* Properties of listarchive                                               *)
(***************************************************************************)
Range(s) == {s[i] : i \in 1..Len(s)}

TimesExtracted(path) == Cardinality({i \in 1..Len(extracted) : extracted[i].path = path})

\* C2: two enumerations of the same archive path with the same pattern and
\* filter, each drained to its end, extract every container they came to
\* (the root archive and the nested ones) exactly once in total, all of it
\* in the first enumeration, and yield the same set of paths.
C2_ExtractionIdempotent ==
    (/\ Len(outcomes) = 2 /\ outcomes[1] = "done" /\ outcomes[2] = "done"
     /\ IsArchiveExt(CompoundExt(Basename(wroot)))) =>
        /\ Range(yields[1]) = Range(yields[2])
        /\ \A c \in reached \cup {wroot} : TimesExtracted(c) = 1
        /\ \A i \in 1..Len(extracted) : extracted[i].call = 1

\* the member leaves the destination: its resolved path is not below it
Escapes(dest, name) == ~IsPrefix(Normalize(dest), Normalize(dest \o name))

\* C3: a tar archive with a member whose resolved path lies outside the
\* extraction directory is never extracted (extraction aborts before any
\* member is written).
C3_TraversalAborts ==
    \A i \in 1..Len(extracted) :
        LET e == extracted[i]
        IN  Archive(e.content).format = "tar" =>
                \A k \in 1..Len(Archive(e.content).members) :
                    ~Escapes(ExtractedPath(e.path), Archive(e.content).members[k].name)

(***************************************************************************)
(* Annotation files: what ElementTree.parse / json.load find in them       *)
(***************************************************************************)
XmlObject(name, difficult, boxes) == [name |-> name, difficult |-> difficult, bndbox |-> boxes]

\* the object elements of a VOC file, in document order
XmlObjects(content) ==
    CASE content = "xml_41" ->
            <<XmlObject(d_synset, 0, <<<<48, 240, 195, 371>>>>),
              XmlObject(d_other, 0, <<<<8, 12, 352, 498>>>>),
              XmlObject(d_synset, 1, <<<<0, 0, 9, 9>>>>),
              XmlObject(d_synset, 0, <<<<1, 2, 3, 4>>, <<5, 6, 7, 8>>>>)>>
      [] content = "xml_43" ->
            <<XmlObject(d_synset, 1, <<<<26, 47, 58, 102>>>>),
              XmlObject(d_other, 0, <<<<8, 12, 352, 498>>>>)>>
      [] content = "xml_7" ->
            <<XmlObject(d_other, 0, <<<<3, 4, 100, 120>>>>)>>
      [] OTHER -> <<>>

CocoAnnotation(image_id, category_id, bbox) ==
    [image_id |-> image_id, category_id |-> category_id, bbox |-> bbox]

\* content['annotations'] and content['categories'] of an instances file
CocoContent(content) ==
    CASE content = "instances_val" ->
            [annotations |-> <<CocoAnnotation(6818, 1, <<10, 20, 30, 40>>),
                               CocoAnnotation(139, 2, <<0, 0, 5, 5>>),
                               CocoAnnotation(6818, 2, <<1, 1, 1, 1>>)>>,
             categories |-> (1 :> <<c_cat, c_animal>>) @@ (2 :> <<c_dog, c_animal>>)]
      [] content = "instances_train" ->
            [annotations |-> <<CocoAnnotation(9, 1, <<7, 7, 2, 3>>)>>,
             categories |-> (1 :> <<c_cat, c_animal>>)]
      [] OTHER -> [annotations |-> <<>>, categories |-> <<>>]

Box(class, rect) == [class |-> class, rect |-> rect]

(***************************************************************************)
(* get_xml_rects and get_coco_bboxes                                       *)
(***************************************************************************)
\* lines 233-249: the bndbox rects of the objects named label and not
\* difficult, coordinates as stored
RECURSIVE XmlRects(_, _, _)
XmlRects(objs, i, label) ==
    IF i > Len(objs) THEN <<>>
    ELSE (IF objs[i].name # label.s \/ label.t # "str" THEN <<>>
          ELSE IF objs[i].difficult # 0 THEN <<>>
          ELSE objs[i].bndbox) \o XmlRects(objs, i + 1, label)

get_xml_rects(content, label) == XmlRects(XmlObjects(content), 1, label)

\* lines 269-270 without the - 1: the far corner one pixel out
CocoRectOuter(bbox) == <<bbox[1], bbox[2], bbox[3] + bbox[1], bbox[4] + bbox[2]>>

\* lines 268-270: bbox[2] += bbox[0] - 1; bbox[3] += bbox[1] - 1
CocoRect(bbox) == <<bbox[1], bbox[2], bbox[3] + bbox[1] - 1, bbox[4] + bbox[2] - 1>>

\* lines 262-276: image_id -> the boxes of its annotations, in file order
RECURSIVE CocoFold(_, _, _, _)
CocoFold(anns, cats, i, bboxes) ==
    IF i > Len(anns) THEN bboxes
    ELSE LET a     == anns[i]
             label == StrLabel(synset_offset(cats[a.category_id][1], cats[a.category_id][2]))
             b     == Box(label, CocoRect(a.bbox))
         IN  CocoFold(anns, cats, i + 1,
                      IF a.image_id \notin DOMAIN bboxes
                      THEN (a.image_id :> <<b>>) @@ bboxes
                      ELSE [bboxes EXCEPT ![a.image_id] = Append(@, b)])

get_coco_bboxes(content) ==
    CocoFold(CocoContent(content).annotations, CocoContent(content).categories, 1, <<>>)

(***************************************************************************)
(* The TSV row of an image and its length in bytes                         *)
(***************************************************************************)
\* the number of characters of str(n)
RECURSIVE DecLen(_)
DecLen(n) == IF n < 0 THEN 1 + DecLen(-n) ELSE IF n < 10 THEN 1 ELSE 1 + DecLen(n \div 10)

RECURSIVE SumLen(_, _)
SumLen(s, i) == IF i > Len(s) THEN 0 ELSE s[i] + SumLen(s, i + 1)

\* json.dumps of a list of n items: brackets and ", " between the items
JsonListLen(itemLens) ==
    2 + SumLen(itemLens, 1) + (IF Len(itemLens) > 1 THEN 2 * (Len(itemLens) - 1) ELSE 0)

\* {"class": <label>, "rect": [a, b, c, d]}
JsonBoxLen(b) ==
    10 + (IF b.class.t = "str" THEN Len(b.class.s) + 2 ELSE DecLen(b.class.n))
       + 10 + JsonListLen([k \in 1..Len(b.rect) |-> DecLen(b.rect[k])]) + 1

JsonBoxesLen(boxes) == JsonListLen([k \in 1..Len(boxes) |-> JsonBoxLen(boxes[k])])

\* line 357: os.path.relpath(path, root_path).replace("\\", "/")
Relpath(path, root) == SubSeq(path, Len(root) + 1, Len(path))

RelpathLen(rel) == SumLen([k \in 1..Len(rel) |-> Len(rel[k])], 1) + Len(rel) - 1

Row(rec, boxes, root) ==
    [full_label |-> rec.full_label, boxes |-> boxes, relpath |-> Relpath(rec.path, root)]

\* line 363: "{}\t{}\t{}\n"
RowBytes(row) ==
    Len(row.full_label) + 1 + JsonBoxesLen(row.boxes) + 1 + RelpathLen(row.relpath) + 1

(***************************************************************************)
(* get_boxes: the two loops over listarchive, one action per way out of    *)
(* the loop body.  The generator of the source in hand is the one of       *)
(* wstack; a return from inside the loop abandons it where it stands.      *)
(***************************************************************************)
\* the bucket main is writing and the record get_boxes is called for
Vs == LET i == CHOOSE k \in 1..Len(imagedata) : imagedata[k].phase = mphase
      IN  imagedata[i].vs
Rec == Vs[vi + 1]

\* line 284
IsCoco(rec) == StartsWith(rec.meta, s_COCO)

InGetBoxes(stage) == mstatus = "run" /\ gb.stage = stage /\ wstatus = "run"

\* the generator is exhausted: the for statement is left
Exhausted == wstack = <<>> /\ ~wpending.has

\* listarchive(path, extension_pattern=pat, filter_func=filt): a generator
\* is created, nothing of its body has run
ListArchive(path, pat, filt, earlier) ==
    /\ wroot' = path
    /\ wpat' = pat
    /\ wfilter' = filt
    /\ wstack' = <<CallFrame(path, TRUE, filt.on)>>
    /\ wpending' = NoPending
    /\ wstatus' = "run"
    /\ yields' = Append(earlier, <<>>)

\* the paths the loops of this call were handed, the one in hand included
Seen == UNION {Range(yields[k]) : k \in 1..Len(yields)} \cup
        (IF wpending.has THEN {wpending.path} ELSE {})

\* line 297
Selects(fname) == Contains(fname, s_instances) /\ Contains(fname, mphase)

\* lines 300-303 with the fallback box of line 315 for an image the file
\* does not list
CocoLookupOrFallback(table, label) ==
    IF label.n \notin DOMAIN table THEN <<Box(label, <<0, 0, 0, 0>>)>> ELSE table[label.n]

\* lines 300-303
CocoLookup(table, label) ==
    IF label.n \notin DOMAIN table THEN <<>> ELSE table[label.n]

\* line 313 with the fallback box of line 315 when no rect is left
VocBoxesOrFallback(content, label) ==
    LET rects == get_xml_rects(content, label)
    IN  IF rects = <<>> THEN <<Box(label, <<0, 0, 0, 0>>)>>
        ELSE [k \in 1..Len(rects) |-> Box(label, rects[k])]

\* line 313
VocBoxes(content, label) ==
    LET rects == get_xml_rects(content, label)
    IN  [k \in 1..Len(rects) |-> Box(label, rects[k])]

\* line 315
FallbackBoxes(label) == <<Box(label, <<0, 0, 0, 0>>)>>

EmptyFiles == [tsv |-> <<>>, lineidx |-> <<>>, tell |-> 0]

\* lines 362-363 in the other order: the position is taken after the row
WriteRowThenTell(f, row) ==
    [tsv |-> Append(f.tsv, row),
     lineidx |-> Append(f.lineidx, f.tell + RowBytes(row)),
     tell |-> f.tell + RowBytes(row)]

\* lines 362-363: the position of the TSV file, then the row
WriteRow(f, row) ==
    [tsv |-> Append(f.tsv, row),
     lineidx |-> Append(f.lineidx, f.tell),
     tell |-> f.tell + RowBytes(row)]

\* get_boxes returns boxes; lines 359-363 skip the image or write its row
Return(boxes, via, file) ==
    /\ out' = IF boxes = <<>> THEN out
              ELSE [out EXCEPT ![mphase] = WriteRow(@, Row(Rec, boxes, root_path))]
    /\ elog' = Append(elog, [phase |-> mphase, i |-> vi + 1, rec |-> Rec, boxes |-> boxes,
                             via |-> via, file |-> file, src |-> gb.src,
                             calls |-> Len(yields), seen |-> Seen,
                             rows |-> Len(out'[mphase].tsv),
                             lines |-> Len(out'[mphase].lineidx)])
    /\ vi' = vi + 1
    /\ gb' = NoCall
    /\ wstack' = <<>>
    /\ wpending' = NoPending
    /\ wstatus' = "idle"

\* get_boxes is entered with the cache left by the earlier phase
KeepPhaseCache(cache) == cache

\* line 352: phase_cache = {}
NewPhaseCache(cache) == <<>>

\* lines 349-354: the next bucket, its cache and its two files
StartPhase ==
    /\ mstatus = "run" /\ gstatus = "done" /\ mphase = <<>>
    /\ \E k \in 1..Len(imagedata) :
        /\ imagedata[k].phase \notin phases_done
        /\ mphase' = imagedata[k].phase
        /\ out' = (imagedata[k].phase :> EmptyFiles) @@ out
    /\ vi' = 0
    /\ phase_cache' = NewPhaseCache(phase_cache)
    /\ UNCHANGED <<syn_cache, LabelVars, GatherVars, WalkVars, annotation, phases_done,
                   parsed, gb, elog, mstatus>>

\* lines 284-292: a COCO image and no lookup service
GetBoxesRaise ==
    /\ mstatus = "run" /\ mphase # <<>> /\ gb.stage = "none" /\ vi < Len(Vs)
    /\ IsCoco(Rec) /\ ~syn_cache
    /\ mstatus' = "error"
    /\ UNCHANGED <<syn_cache, LabelVars, GatherVars, WalkVars, annotation, mphase,
                   phases_done, vi, phase_cache, parsed, out, gb, elog>>

\* line 358 and lines 294-295 or 309-310: the loop over the first source
GetBoxesCall ==
    /\ mstatus = "run" /\ mphase # <<>> /\ gb.stage = "none" /\ vi < Len(Vs)
    /\ IsCoco(Rec) => syn_cache
    /\ gb' = [stage |-> IF IsCoco(Rec) THEN "coco" ELSE "voc", src |-> 1]
    /\ IF IsCoco(Rec)
       THEN ListArchive(annotation[1], LitPattern(s_jsonpat), NoFilter, <<>>)
       ELSE ListArchive(annotation[1], LitPattern(s_xmlpat),
                        [on |-> TRUE, label |-> Rec.label], <<>>)
    /\ outcomes' = <<>>
    /\ UNCHANGED <<syn_cache, LabelVars, GatherVars, fs, reached, extracted, removed,
                   annotation, mphase, phases_done, vi, phase_cache, parsed, out, elog,
                   mstatus>>

\* lines 296-297: not the instances file of the phase
CocoOther ==
    /\ InGetBoxes("coco") /\ wpending.has
    /\ ~Selects(Basename(wpending.path))
    /\ yields' = [yields EXCEPT ![Len(yields)] = Append(@, wpending.path)]
    /\ wpending' = NoPending
    /\ UNCHANGED <<syn_cache, LabelVars, GatherVars, EmitVars, fs, wroot, wpat, wfilter,
                   wstack, wstatus, outcomes, reached, extracted, removed>>

\* lines 297-303: the file is parsed unless the cache has it
CocoSelect ==
    /\ InGetBoxes("coco") /\ wpending.has
    /\ Selects(Basename(wpending.path))
    /\ LET fname == Basename(wpending.path)
           hit   == fname \in DOMAIN phase_cache
           cache == IF hit THEN phase_cache
                    ELSE (fname :> get_coco_bboxes(fs[wpending.path].content)) @@ phase_cache
       IN  /\ phase_cache' = cache
           /\ parsed' = IF hit THEN parsed
                        ELSE Append(parsed, [phase |-> mphase, fname |-> fname])
           /\ Return(CocoLookup(cache[fname], Rec.label), "coco", wpending.path)
    /\ UNCHANGED <<syn_cache, LabelVars, GatherVars, fs, wroot, wpat, wfilter, yields,
                   outcomes, reached, extracted, removed, annotation, mphase,
                   phases_done, mstatus>>

\* lines 311-312: not a file of this image
VocOther ==
    /\ InGetBoxes("voc") /\ wpending.has
    /\ ~StartsWith(Basename(wpending.path), Rec.full_label)
    /\ yields' = [yields EXCEPT ![Len(yields)] = Append(@, wpending.path)]
    /\ wpending' = NoPending
    /\ UNCHANGED <<syn_cache, LabelVars, GatherVars, EmitVars, fs, wroot, wpat, wfilter,
                   wstack, wstatus, outcomes, reached, extracted, removed>>

\* lines 312-313
VocSelect ==
    /\ InGetBoxes("voc") /\ wpending.has
    /\ StartsWith(Basename(wpending.path), Rec.full_label)
    /\ Return(VocBoxes(fs[wpending.path].content, Rec.label), "voc", wpending.path)
    /\ UNCHANGED <<syn_cache, LabelVars, GatherVars, fs, wroot, wpat, wfilter, yields,
                   outcomes, reached, extracted, removed, annotation, mphase,
                   phases_done, phase_cache, parsed, mstatus>>

\* lines 294 and 309: the next ann_path of the loop in hand
NextSource ==
    /\ InGetBoxes(gb.stage) /\ Exhausted
    /\ gb.src < Len(annotation)
    /\ gb' = [gb EXCEPT !.src = @ + 1]
    /\ ListArchive(annotation[gb.src + 1], wpat, wfilter, yields)
    /\ outcomes' = Append(outcomes, "done")
    /\ UNCHANGED <<syn_cache, LabelVars, GatherVars, fs, reached, extracted, removed,
                   annotation, mphase, phases_done, vi, phase_cache, parsed, out, elog,
                   mstatus>>

\* lines 294-310: the COCO loop is over and nothing was returned; the code
\* goes on with the loop of line 309
CocoFallThrough ==
    /\ InGetBoxes("coco") /\ Exhausted
    /\ gb.src = Len(annotation)
    /\ gb' = [stage |-> "voc", src |-> 1]
    /\ ListArchive(annotation[1], LitPattern(s_xmlpat),
                   [on |-> TRUE, label |-> Rec.label], yields)
    /\ outcomes' = Append(outcomes, "done")
    /\ UNCHANGED <<syn_cache, LabelVars, GatherVars, fs, reached, extracted, removed,
                   annotation, mphase, phases_done, vi, phase_cache, parsed, out, elog,
                   mstatus>>

\* lines 315-316
VocFallback ==
    /\ InGetBoxes("voc") /\ Exhausted
    /\ gb.src = Len(annotation)
    /\ Return(FallbackBoxes(Rec.label), "fallback", <<>>)
    /\ UNCHANGED <<syn_cache, LabelVars, GatherVars, fs, wroot, wpat, wfilter, yields,
                   outcomes, reached, extracted, removed, annotation, mphase,
                   phases_done, phase_cache, parsed, mstatus>>

\* an exception of listarchive leaves get_boxes and main
MainAbort ==
    /\ mstatus = "run" /\ wstatus = "error"
    /\ mstatus' = "error"
    /\ UNCHANGED <<syn_cache, LabelVars, GatherVars, WalkVars, annotation, mphase,
                   phases_done, vi, phase_cache, parsed, out, gb, elog>>

\* line 355 exhausted: the files of the phase are closed
EndPhase ==
    /\ mstatus = "run" /\ mphase # <<>> /\ gb.stage = "none" /\ vi = Len(Vs)
    /\ phases_done' = phases_done \cup {mphase}
    /\ mphase' = <<>>
    /\ UNCHANGED <<syn_cache, LabelVars, GatherVars, WalkVars, annotation, vi,
                   phase_cache, parsed, out, gb, elog, mstatus>>

\* line 365
MainReturn ==
    /\ mstatus = "run" /\ gstatus = "done" /\ mphase = <<>>
    /\ PhaseKeys(imagedata) \subseteq phases_done
    /\ mstatus' = "done"
    /\ UNCHANGED <<syn_cache, LabelVars, GatherVars, WalkVars, annotation, mphase,
                   phases_done, vi, phase_cache, parsed, out, gb, elog>>

(***************************************************************************)
(* A run of main: convert_to_tsv.py [-k cap] -a source ... data            *)
(***************************************************************************)
MainDatasets ==
    {{<<d_root, d_train, f_s41>>, <<d_root, d_train, f_s43>>,
      <<d_root, d_train, f_s42meta>>, <<d_root, f_s41train>>, <<d_root, f_hidden>>,
      <<d_root, f_notes>>},
     {<<d_root, d_val, f_bare>>, <<d_root, d_val, f_bare2>>, <<d_root, d_val, f_barej>>,
      <<d_root, d_valb, f_bare>>},
     {<<d_root, d_train, f_s41>>, <<d_root, d_synset, f_blue>>},
     {<<d_root, d_train, f_s41>>, <<d_root, d_train, f_coco>>},
     {<<d_root, d_train, f_s41>>, <<d_root, d_train, f_s41png>>},
     {<<d_root, d_train, f_s4>>}}

\* -a with the path of a file, and -a with the directory that holds it
Source(name, content) ==
    [path |-> <<d_ann, name>>, file |-> <<d_ann, name>>, content |-> content]
DirSource(name, content) ==
    [path |-> <<d_ann>>, file |-> <<d_ann, name>>, content |-> content]

MainAnnotations ==
    {<<Source(a_tar, "voc")>>, <<Source(a_zip, "coco")>>,
     <<Source(j_train, "instances_train")>>, <<Source(a_tar, "evil")>>,
     <<Source(a_tgz, "nest")>>, <<Source(a_zip, "coco"), Source(a_tar, "voc")>>,
     <<DirSource(a_tar, "voc")>>}

MainCaps == {NoCap, [inf |-> FALSE, n |-> 1]}

RECURSIVE WriteSources(_, _, _)
WriteSources(f, srcs, i) ==
    IF i > Len(srcs) THEN f
    ELSE WriteSources(WriteFile(f, srcs[i].file, FileNode(srcs[i].content)), srcs, i + 1)

InitMain ==
    /\ syn_cache \in BOOLEAN
    /\ IdleLabel
    /\ root_path = <<d_root>>
    /\ dataset \in MainDatasets
    /\ max_keep \in MainCaps
    /\ gstack = <<[dir |-> root_path, rest |-> DatasetListdir(dataset, root_path)]>>
    /\ imagedata = <<>> /\ counts = <<>> /\ gseen = <<>> /\ gstatus = "run"
    /\ \E srcs \in MainAnnotations :
        /\ annotation = [k \in 1..Len(srcs) |-> srcs[k].path]
        /\ fs = WriteSources(<<>>, srcs, 1)
    /\ wroot = <<>> /\ wpat = WordPattern /\ wfilter = NoFilter /\ wstack = <<>>
    /\ wpending = NoPending /\ wstatus = "idle" /\ yields = <<>> /\ outcomes = <<>>
    /\ reached = {} /\ extracted = <<>> /\ removed = <<>>
    /\ mphase = <<>> /\ phases_done = {} /\ vi = 0 /\ phase_cache = <<>>
    /\ parsed = <<>> /\ out = <<>> /\ gb = NoCall /\ elog = <<>> /\ mstatus = "run"

NextMain ==
    \/ GatherHidden \/ GatherDir \/ GatherSkipExtension \/ GatherLabelError
    \/ GatherDrop \/ GatherKeep \/ GatherReturn
    \/ WalkDir \/ WalkDirFilterError \/ WalkDirNext \/ WalkDirReturn \/ WalkFile
    \/ WalkReuse \/ WalkExtract \/ WalkExtractFail \/ WalkPost
    \/ StartPhase \/ GetBoxesRaise \/ GetBoxesCall \/ CocoOther \/ CocoSelect
    \/ VocOther \/ VocSelect \/ NextSource \/ CocoFallThrough \/ VocFallback
    \/ MainAbort \/ EndPhase \/ MainReturn

SpecMain == InitMain /\ [][NextMain]_vars

(***************************************************************************)
(* Properties of get_boxes and of the emitter                              *)
(***************************************************************************)
\* the rows and index lines of the phase's files before the image of the
\* k-th return was handled
RowsBefore(k) == IF k > 1 /\ elog[k - 1].phase = elog[k].phase THEN elog[k - 1].rows ELSE 0
LinesBefore(k) == IF k > 1 /\ elog[k - 1].phase = elog[k].phase THEN elog[k - 1].lines ELSE 0

\* the k-th return came from an instances file that does not list the image
CocoMiss(k) ==
    /\ elog[k].via = "coco"
    /\ elog[k].rec.label.n \notin DOMAIN get_coco_bboxes(fs[elog[k].file].content)

\* C6: when the instances file selected for the phase has no entry for the
\* image's numeric id, get_boxes returns the empty list at once, without
\* enumerating a further annotation source; the emitter writes neither a
\* TSV row nor an index line for the image and goes on with the next one.
C6_CocoSkipOnEmpty ==
    \A k \in 1..Len(elog) :
        CocoMiss(k) =>
            /\ elog[k].boxes = <<>>
            /\ elog[k].calls = elog[k].src
            /\ elog[k].rows = RowsBefore(k)
            /\ elog[k].lines = LinesBefore(k)
            /\ (k < Len(elog) /\ elog[k + 1].phase = elog[k].phase) =>
                    elog[k + 1].i = elog[k].i + 1

\* an image the instances file of the first of two sources does not list
\* was skipped, and the next image of the bucket was resolved
C6_Witness ==
    \E k \in 1..Len(elog) :
        /\ CocoMiss(k)
        /\ elog[k].src < Len(annotation)
        /\ k < Len(elog) /\ elog[k + 1].phase = elog[k].phase
        /\ elog[k + 1].boxes # <<>>

\* C7: for an image whose meta starts with COCO_ (lookup service there),
\* whatever the annotation sources, get_boxes returns from the COCO loop:
\* it never enters the VOC search and never returns the fallback box.
C7_CocoNeverFallsBack ==
    /\ \A k \in 1..Len(elog) : IsCoco(elog[k].rec) => elog[k].via = "coco"
    /\ (mstatus = "run" /\ gb.stage = "voc") => ~IsCoco(Rec)

\* C8 as stated: for an image whose meta does not start with COCO_,
\* get_boxes never returns an empty list, and the image is never skipped.
C8_VocNeverEmpty ==
    \A k \in 1..Len(elog) :
        ~IsCoco(elog[k].rec) =>
            /\ elog[k].boxes # <<>>
            /\ elog[k].rows = RowsBefore(k) + 1

\* a yielded file of the image: its basename starts with full_label
MatchedIn(seen, rec) == {q \in seen : StartsWith(Basename(q), rec.full_label)}

\* C8, amended: for an image whose meta does not start with COCO_,
\* get_boxes returns the single box {class: label, rect: [0,0,0,0]} exactly
\* when no enumerated annotation file has a basename starting with
\* full_label, and the image is then written; when a file matches it
\* returns one box per qualifying rect of that file, which is the empty
\* list when the file has no qualifying object, and the image is then
\* skipped.
C8_VocFallbackOnNoMatch ==
    \A k \in 1..Len(elog) :
        LET e == elog[k]
        IN  ~IsCoco(e.rec) =>
                /\ e.via \in {"voc", "fallback"}
                /\ e.via = "fallback" <=> MatchedIn(e.seen, e.rec) = {}
                /\ e.via = "fallback" =>
                        /\ e.boxes = <<Box(e.rec.label, <<0, 0, 0, 0>>)>>
                        /\ e.rows = RowsBefore(k) + 1
                /\ e.via = "voc" =>
                        /\ MatchedIn(e.seen, e.rec) = {e.file}
                        /\ Len(e.boxes) = Len(get_xml_rects(fs[e.file].content, e.rec.label))
                        /\ \A j \in 1..Len(e.boxes) :
                               e.boxes[j] = Box(e.rec.label,
                                                get_xml_rects(fs[e.file].content, e.rec.label)[j])
                        /\ e.rows = RowsBefore(k) + (IF e.boxes = <<>> THEN 0 ELSE 1)

\* one image got the fallback box, another matched a file without a
\* qualifying object and was skipped, a third got the rects of its file
C8_Witness ==
    \E k1, k2, k3 \in 1..Len(elog) :
        /\ ~IsCoco(elog[k1].rec) /\ elog[k1].via = "fallback"
        /\ ~IsCoco(elog[k2].rec) /\ elog[k2].via = "voc" /\ elog[k2].boxes = <<>>
        /\ ~IsCoco(elog[k3].rec) /\ elog[k3].via = "voc" /\ Len(elog[k3].boxes) > 1

\* the returns of get_boxes for the images of a phase, in order
ReturnsOf(p) == SelectSeq(elog, LAMBDA e : e.phase = p)
BucketVs(p) == imagedata[CHOOSE k \in 1..Len(imagedata) : imagedata[k].phase = p].vs

RECURSIVE BytesBefore(_, _)
BytesBefore(rows, i) == IF i <= 1 THEN 0 ELSE BytesBefore(rows, i - 1) + RowBytes(rows[i - 1])

\* C9: after any prefix of a phase's records, <phase>.lineidx has as many
\* lines as <phase>.tsv has rows, the i-th line is the byte offset of the
\* i-th row (0 for the first, then the earlier offset plus the earlier
\* row's length), and the rows are those of the records handled so far with
\* a non-empty box list, in the bucket's insertion order.
C9_LineIndexOffsets ==
    \A p \in DOMAIN out :
        LET f       == out[p]
            handled == ReturnsOf(p)
            written == SelectSeq(handled, LAMBDA e : e.boxes # <<>>)
        IN  /\ Len(f.lineidx) = Len(f.tsv)
            /\ \A i \in 1..Len(f.tsv) : f.lineidx[i] = BytesBefore(f.tsv, i)
            /\ Len(handled) <= Len(BucketVs(p))
            /\ \A j \in 1..Len(handled) : handled[j].rec = BucketVs(p)[j]
            /\ Len(f.tsv) = Len(written)
            /\ \A i \in 1..Len(f.tsv) :
                   f.tsv[i] = Row(written[i].rec, written[i].boxes, root_path)

\* a phase with a row written, then an image skipped, then a second row
C9_Witness ==
    \E p \in DOMAIN out :
        /\ Len(out[p].tsv) >= 2
        /\ out[p].lineidx[2] > 0
        /\ \E j \in 2..(Len(ReturnsOf(p)) - 1) :
               /\ ReturnsOf(p)[j - 1].boxes # <<>>
               /\ ReturnsOf(p)[j].boxes = <<>>
               /\ ReturnsOf(p)[j + 1].boxes # <<>>

\* C10: within a phase, each instances file (by basename) is parsed by
\* get_coco_bboxes at most once, the later lookups being answered from the
\* cache; and a lookup is never answered from the cache of another phase:
\* the file was parsed in the phase of the lookup.
C10_ParsedOncePerPhase ==
    /\ \A i, j \in 1..Len(parsed) : i # j => parsed[i] # parsed[j]
    /\ \A k \in 1..Len(elog) :
           elog[k].via = "coco" =>
               [phase |-> elog[k].phase, fname |-> Basename(elog[k].file)] \in Range(parsed)
    /\ mphase # <<>> =>
           DOMAIN phase_cache = {r.fname : r \in {q \in Range(parsed) : q.phase = mphase}}

\* two images of one phase were resolved from the same instances file, and
\* the file was parsed again for an image of another phase
C10_Witness ==
    \E k1, k2, k3 \in 1..Len(elog) :
        /\ k1 < k2
        /\ elog[k1].via = "coco" /\ elog[k2].via = "coco" /\ elog[k3].via = "coco"
        /\ elog[k1].phase = elog[k2].phase /\ elog[k3].phase # elog[k1].phase
        /\ Basename(elog[k1].file) = Basename(elog[k2].file)
        /\ Basename(elog[k3].file) = Basename(elog[k1].file)

(***************************************************************************)
(* Properties of get_coco_bboxes                                           *)
(***************************************************************************)
\* the annotations of an image in an instances file, in file order
AnnotationsOf(content, id) ==
    SelectSeq(CocoContent(content).annotations, LAMBDA a : a.image_id = id)

\* C11: every box returned from the COCO loop, parsed for this call or
\* taken from the cache, has the rect [x, y, x+w-1, y+h-1] of its
\* annotation's bbox [x, y, w, h]: the conversion was applied once.
C11_CocoBoxConversion ==
    \A k \in 1..Len(elog) :
        LET e    == elog[k]
            anns == AnnotationsOf(fs[e.file].content, e.rec.label.n)
        IN  e.via = "coco" =>
                /\ Len(e.boxes) = Len(anns)
                /\ \A j \in 1..Len(anns) :
                       e.boxes[j].rect = <<anns[j].bbox[1], anns[j].bbox[2],
                                           anns[j].bbox[1] + anns[j].bbox[3] - 1,
                                           anns[j].bbox[2] + anns[j].bbox[4] - 1>>

\* the boxes of image 6818 were returned twice in one phase, the second
\* time from the cache, with bbox [10,20,30,40] as rect [10,20,39,59]
C11_Witness ==
    \E k1, k2 \in 1..Len(elog) :
        /\ k1 < k2
        /\ elog[k1].via = "coco" /\ elog[k2].via = "coco"
        /\ elog[k1].phase = elog[k2].phase
        /\ elog[k1].rec.label = elog[k2].rec.label
        /\ Cardinality({i \in 1..Len(parsed) : parsed[i].phase = elog[k1].phase}) = 1
        /\ elog[k2].boxes # <<>>
        /\ elog[k2].boxes[1].rect = <<10, 20, 39, 59>>

(***************************************************************************)
(* Properties of the deletions of listarchive                              *)
(***************************************************************************)
\* the files below dir that an enumeration without filter is to yield
FilesToYield(f, dir) ==
    {q \in DOMAIN f :
        /\ Len(q) > Len(dir) /\ IsPrefix(dir, q)
        /\ f[q].kind = "file"
        /\ \A k \in (Len(dir) + 1)..Len(q) : ~IsHidden(q[k])
        /\ ~IsArchiveExt(CompoundExt(Basename(q)))
        /\ PatternMatches(wpat, CompoundExt(Basename(q)))}

ExtractedPaths == {extracted[i].path : i \in 1..Len(extracted)}

\* what holds whenever listarchive is about to delete the archive of the
\* frame on top
RemovalInOrder ==
    /\ ~WTop.is_root
    /\ WTop.path # wroot
    /\ WTop.path \in ExtractedPaths
    /\ ~wfilter.on =>
           FilesToYield(fs, ExtractedPath(WTop.path)) \subseteq Range(yields[Len(yields)])

\* C12: listarchive never deletes the path it was called on; it deletes
\* every nested archive it has freshly extracted, and only once all files
\* of that archive's extraction directory have been yielded; an archive
\* whose extraction directory existed already is left in place.
C12_DeletesNestedOnly ==
    /\ [](/\ Exists(fs, wroot)
          /\ Range(removed) \subseteq ExtractedPaths \ {wroot}
          /\ \A i \in 1..Len(extracted) :
                 (/\ extracted[i].call <= Len(outcomes)
                  /\ outcomes[extracted[i].call] = "done"
                  /\ extracted[i].path # wroot) => extracted[i].path \in Range(removed))
    /\ [][removed' # removed => RemovalInOrder]_vars

\* C12 without the clause on the files yielded before a deletion
C12_DeletesNestedOnlyFrame ==
    /\ Exists(fs, wroot)
    /\ Range(removed) \subseteq ExtractedPaths \ {wroot}
    /\ \A i \in 1..Len(extracted) :
           (/\ extracted[i].call <= Len(outcomes)
            /\ outcomes[extracted[i].call] = "done"
            /\ extracted[i].path # wroot) => extracted[i].path \in Range(removed)

(***************************************************************************)
(* Properties of the filter of listarchive                                 *)
(***************************************************************************)
WTopAfter == wstack'[Len(wstack')]

\* the entries of a listing that satisfy the filter
Satisfying(vis) == {s0 \in vis : Contains(s0, wfilter.label.s)}

\* a step that lists the directory of the call on top
ListsDirectory ==
    /\ wstack # <<>> /\ WTop.k = "call" /\ IsDir(fs, WTop.path)
    /\ wstack' # wstack /\ wstatus' = "run"

\* a step that starts a call for an entry of the directory on top
DescendsEntry ==
    /\ wstack # <<>> /\ WTop.k = "dir" /\ Len(wstack') = Len(wstack) + 1

\* a step that goes from an archive to its extraction directory
EntersArchive ==
    /\ wstack # <<>> /\ WTop.k = "call" /\ ~IsDir(fs, WTop.path)
    /\ Len(wstack') >= Len(wstack) /\ wstack' # wstack

\* C13: where the filter is still active, a directory with at least one
\* satisfying visible entry is descended through the satisfying entries
\* only, with no filter below them (nested archives included); one with no
\* satisfying entry and more than one visible entry yields nothing; one
\* with a single, non-satisfying entry is descended with the filter still
\* active.  The filter state belongs to the call: every entry of a
\* directory is entered with the state fixed when the directory was
\* listed, and an archive hands its own state to its extraction directory.
C13_FilterPerLevel ==
    [][/\ ListsDirectory =>
            LET vis == Visible(fs, WTop.path)
                sat == Satisfying(vis)
            IN  /\ Len(wstack') = Len(wstack)
                /\ WTopAfter.k = "dir" /\ WTopAfter.path = WTop.path
                /\ ~WTop.filt => WTopAfter.rest = vis /\ ~WTopAfter.filt
                /\ (WTop.filt /\ sat # {}) => WTopAfter.rest = sat /\ ~WTopAfter.filt
                /\ (WTop.filt /\ sat = {} /\ Cardinality(vis) > 1) => WTopAfter.rest = {}
                /\ (WTop.filt /\ sat = {} /\ Cardinality(vis) = 1) =>
                        WTopAfter.rest = vis /\ WTopAfter.filt
       /\ DescendsEntry =>
            /\ WTopAfter.k = "call" /\ WTopAfter.filt = WTop.filt
            /\ \E s0 \in WTop.rest :
                /\ WTopAfter.path = Append(WTop.path, s0)
                /\ wstack'[Len(wstack)] = [WTop EXCEPT !.rest = @ \ {s0}]
       /\ EntersArchive =>
            /\ WTopAfter.k = "call" /\ WTopAfter.filt = WTop.filt
            /\ WTopAfter.path = ExtractedPath(WTop.path)
       /\ (wstack # <<>> /\ wstack' # <<>> /\ wstatus' = "run" /\ wstatus = "run") =>
            SubSeq(wstack', 1, Len(wstack) - 1) = WBelow
      ]_vars

\* below a directory with a single, non-satisfying entry (filter kept) the
\* archive's directory had a satisfying entry, and a file below it, reached
\* without filter, has been yielded
C13_Witness ==
    /\ wfilter.on /\ wpending.has /\ mstatus = "idle"
    /\ \E i, j \in 1..Len(wstack) :
        /\ i < j
        /\ wstack[i].k = "dir" /\ wstack[i].filt
        /\ wstack[j].k = "dir" /\ ~wstack[j].filt

(***************************************************************************)
(* Properties of the phase buckets and counts of gather_images             *)
(***************************************************************************)
\* guess_phase of every file of the datasets, and the names among their
\* components (and "training") that contain train, test or val
PhaseOfFile == [f \in DatasetFiles |-> guess_phase(f)]
TokenNames ==
    {c \in UNION {Range(f) : f \in DatasetFiles} \cup {s_training} : IsPhaseName(c)}

\* C14: an image for which guess_phase finds no phase is appended to a
\* bucket that exists already, whose key contains train, test or val, when
\* there is a bucket, and to the bucket "training" otherwise; an image with
\* a phase goes to the bucket of that phase; so every key of the buckets
\* contains one of the three tokens.
C14_PhaseDefaulting ==
    /\ \A i \in 1..Len(imagedata) : imagedata[i].phase \in TokenNames
    /\ \A i \in 1..Len(imagedata) : \A j \in 1..Len(imagedata[i].vs) :
           LET r == imagedata[i].vs[j]
           IN  IF PhaseOfFile[r.path] # <<>>
               THEN imagedata[i].phase = PhaseOfFile[r.path]
               ELSE j = 1 => (i = 1 /\ imagedata[i].phase = s_training)

\* an image without a phase went to a bucket made by an earlier image and
\* not called "training", while two buckets existed
C14_Witness ==
    /\ mstatus = "idle"
    /\ Len(imagedata) >= 2
    /\ \E i \in 1..Len(imagedata) : \E j \in 2..Len(imagedata[i].vs) :
           /\ PhaseOfFile[imagedata[i].vs[j].path] = <<>>
           /\ imagedata[i].phase # s_training

\* C15: after every directory entry, counts[label] is the number of records
\* with that label over all buckets, for every label, and every kept image
\* is in exactly one bucket, once.
C15_CountsMatchBuckets ==
    /\ \A l \in DOMAIN counts : counts[l] = KeptCount(imagedata, Len(imagedata), l)
    /\ \A i \in 1..Len(imagedata) : \A j \in 1..Len(imagedata[i].vs) :
           /\ imagedata[i].vs[j].label \in DOMAIN counts
           /\ \A i2 \in 1..Len(imagedata) : \A j2 \in 1..Len(imagedata[i2].vs) :
                  imagedata[i].vs[j].path = imagedata[i2].vs[j2].path => (i = i2 /\ j = j2)
    /\ \A k \in 1..Len(gseen) :
           LET there == {i \in 1..Len(imagedata) :
                            \E j \in 1..Len(imagedata[i].vs) : imagedata[i].vs[j] = gseen[k]}
           IN  Cardinality(there) <= 1

\* a label counted twice or more with its images in two buckets, and an
\* image of the label dropped at the cap
C15_Witness ==
    /\ mstatus = "idle"
    /\ \E l \in DOMAIN counts :
        /\ counts[l] >= 2
        /\ Len(SeenOf(l)) > counts[l]
        /\ \E i, j \in 1..Len(imagedata) :
            i # j /\ BucketOf(imagedata, i, l) # <<>> /\ BucketOf(imagedata, j, l) # <<>>

(***************************************************************************)
(* Properties of the extraction markers                                    *)
(***************************************************************************)
\* the archive files present, and those whose extraction directory exists
ArchiveFiles ==
    {q \in DOMAIN fs : fs[q].kind = "file" /\ IsArchiveExt(CompoundExt(Basename(q)))}

\* the extraction directory of archive q holds every member of q that is
\* not itself an archive (those are deleted once enumerated)
MarkerComplete(q) ==
    LET a == Archive(fs[q].content)
    IN  \A k \in 1..Len(a.members) :
            LET target == MemberTarget(ExtractedPath(q), a.members[k].name, a.format)
            IN  IsArchiveExt(CompoundExt(Basename(target))) \/
                (Exists(fs, target) /\ fs[target] = a.members[k].node)

\* C16: a directory extracted_<basename> that exists holds the complete
\* contents of the archive it stands for; a failed extraction leaves no
\* marker, so that the next enumeration of the archive fails again; and
\* two archives of one directory never have the same marker.
C16_MarkerStandsForArchive ==
    /\ \A q \in ArchiveFiles :
           Exists(fs, ExtractedPath(q)) => (Readable(fs, q, CompoundExt(Basename(q)))
                                            /\ MarkerComplete(q))
    /\ (Len(outcomes) >= 2 /\ outcomes[1] = "error") => outcomes[2] = "error"
    /\ \A q1, q2 \in ArchiveFiles :
           (ExtractedPath(q1) = ExtractedPath(q2) /\ Exists(fs, ExtractedPath(q1))) => q1 = q2

(***************************************************************************)
(* Properties of repeated annotation resolution                            *)
(***************************************************************************)
\* the k-th and the next return of get_boxes had the same arguments
SameArguments(k) ==
    /\ elog[k].phase = elog[k + 1].phase
    /\ elog[k].rec.label = elog[k + 1].rec.label
    /\ elog[k].rec.full_label = elog[k + 1].rec.full_label
    /\ elog[k].rec.meta = elog[k + 1].rec.meta

NoDuplicates(s) == \A i, j \in 1..Len(s) : s[i] = s[j] => i = j

\* C17: two consecutive calls of get_boxes with the same arguments on the
\* VOC path return equal box lists, although the first leaves the
\* enumeration at its first matching file; and no enumeration yields the
\* same file twice.
C17_ResolutionRepeatable ==
    /\ \A k \in 1..(Len(elog) - 1) :
           (~IsCoco(elog[k].rec) /\ SameArguments(k)) => elog[k].boxes = elog[k + 1].boxes
    /\ \A c \in 1..Len(yields) : NoDuplicates(yields[c])

\* C18: the boxes returned on the VOC path are read only from an annotation
\* file whose name without its extension is the full label of the image; the
\* image n04422727_4 never receives the boxes of n04422727_41.xml.
C18_BoxesFromOwnFile ==
    \A k \in 1..Len(elog) :
        elog[k].via = "voc" => Splitext(Basename(elog[k].file))[1] = elog[k].rec.full_label

====
